---- MODULE Spec2Model ----
(***************************************************************************)
(* Model of sw.js, the service worker of the PSE Dashboard PWA.            *)
(*                                                                         *)
(* State: the cache partitions of CacheStorage, the life cycle of the      *)
(* worker, the fetch handlers in flight (handleApiRequest and              *)
(* handleStaticRequest, one step per await), the background refresh, the   *)
(* open client pages and the messages posted to them.                      *)
(*                                                                         *)
(* The platform calls the code makes (fetch, Cache.match, Cache.put,       *)
(* Cache.addAll, Headers.append, skipWaiting, clients.claim) are modelled  *)
(* by what the Fetch and Service Worker standards say they do at the call  *)
(* site, including the cases in which they throw.                          *)
(***************************************************************************)
EXTENDS Integers, FiniteSets, Sequences, TLC

\* ------------------------------------------------------------------ bounds
\* Fetch events dispatched to the worker (their handlers run concurrently).
MaxFetches == 2
\* Versions of the content the servers answer with (content changes over time).
MaxVersion == 2
\* Fetch events dispatched while the handlers of the other events and the
\* installs of new versions run too (Spec).
MaxInterleavedFetches == 1
\* Installs of a new version of the worker after the first one.
MaxUpdates == 1
\* Messages of type SKIP_WAITING posted to one worker.
MaxSkipMessages == 1
\* Sync events dispatched to the worker.
MaxSyncs == 1
\* Push events dispatched to the worker.
MaxPushes == 2

Handlers == 1..MaxFetches
Versions == 1..MaxVersion

\* --------------------------------------------------------------- constants
CACHE_NAME == "pse-dashboard-v1"
API_CACHE_NAME == "pse-api-cache-v1"
\* The host the fetch listener routes on.
API_HOST == "api.raporty.pse.pl"
\* The host the worker is served from: relative URLs resolve against it.
ORIGIN_HOST == "dashboard.origin"

\* A URL, parsed: new URL(u).hostname is u.host.
Url(host, path) == [host |-> host, path |-> path]
NoUrl == Url("", "")

STATIC_ASSETS ==
    << Url(ORIGIN_HOST, "/"),
       Url(ORIGIN_HOST, "/index.html"),
       Url(ORIGIN_HOST, "/manifest.json"),
       Url("cdn.plot.ly", "/plotly-2.27.0.min.js") >>

\* The endpoint of the background refresh.
REFRESH_URL == Url(API_HOST, "/api/pk5l-wp?$first=200")

\* Partitions left behind by earlier versions of the worker or by the page.
OldCacheNames == {"pse-dashboard-v0", "pse-api-cache-v0"}

\* The requests the pages make: a document navigation to a pre-cached URL, a
\* form submission to it, a sub-resource that is not pre-cached, and calls to
\* the API; GET and non-GET.
Request(url, method, destination) ==
    [url |-> url, method |-> method, destination |-> destination]
Requests ==
    { Request(Url(ORIGIN_HOST, "/"), "GET", "document"),
      Request(Url(ORIGIN_HOST, "/"), "POST", "document"),
      Request(Url(ORIGIN_HOST, "/style.css"), "GET", "style"),
      Request(REFRESH_URL, "GET", ""),
      Request(REFRESH_URL, "POST", "") }
\* The client pages that can be open.
Clients == {"page1", "page2"}
NoRequest == Request(NoUrl, "", "")

\* --------------------------------------------------------------- responses
\* A Response: status, body (for a response of the network, version tells
\* which content the server answered with), the Content-Type and
\* X-Served-From headers, the URL it was fetched from ("" for a constructed one) and the guard of its
\* Headers object ("immutable" for a response of fetch() or of Cache.match(),
\* "response" for one made by new Response()).
Response(url, status, version, body, ctype, served, guard) ==
    [url |-> url, status |-> status, version |-> version, body |-> body,
     ctype |-> ctype, served |-> served, guard |-> guard]

\* cache.match() resolving with undefined, or no response yet.
Undefined == Response(NoUrl, 0, 0, "undefined", "", "none", "none")

\* Response.ok
Ok(r) == r.status >= 200 /\ r.status <= 299

\* What fetch(url) resolves with when it resolves: the content the server has
\* at that moment, or an HTTP error. (fetch rejecting is the other outcome.)
NetworkResponse(url, status, version) ==
    Response(url, status, version, "payload", "network", "none", "immutable")
NetResponses(url, version) ==
    {NetworkResponse(url, 200, version), NetworkResponse(url, 404, version)}

\* The synthesized error of handleApiRequest.
ApiErrorResponse ==
    Response(NoUrl, 503, 0, "{error, message, cached: false}", "application/json",
             "error", "response")

\* The offline page of handleStaticRequest (status defaults to 200).
OfflinePage ==
    Response(NoUrl, 200, 0, "<title>PSE Dashboard - Offline</title>", "text/html",
             "none", "response")

\* The 503 of handleStaticRequest.
StaticErrorResponse ==
    Response(NoUrl, 503, 0, "Service Unavailable", "text/plain", "none", "response")

\* ------------------------------------------------------------ the Cache API
EmptyCache == [k \in {} |-> Undefined]

\* caches.open(name): the partition is created when it does not exist.
CachesOpen(cs, name) ==
    [n \in DOMAIN cs \cup {name} |-> IF n \in DOMAIN cs THEN cs[n] ELSE EmptyCache]

\* cache.match(request): entries are keyed by URL and hold GET requests only;
\* a request of another method matches nothing. The response handed out has
\* immutable headers.
CacheMatch(cs, name, request) ==
    IF name \in DOMAIN cs /\ request.method = "GET" /\ request.url \in DOMAIN cs[name]
    THEN [cs[name][request.url] EXCEPT !.guard = "immutable"]
    ELSE Undefined

\* cache.put(request, response) rejects with a TypeError for a request whose
\* method is not GET.
CachePutRejects(request) == request.method # "GET"

\* cache.put(request, response), when it does not reject.
CachePut(cs, name, request, response) ==
    IF name \in DOMAIN cs
    THEN [cs EXCEPT ![name] =
            [k \in DOMAIN cs[name] \cup {request.url} |->
                IF k = request.url THEN response ELSE cs[name][k]]]
    ELSE cs

\* caches.delete(name)
CachesDelete(cs, name) == [n \in DOMAIN cs \ {name} |-> cs[n]]

\* response.headers.append(name, value) throws a TypeError when the guard of
\* the headers is immutable.
HeadersAppendThrows(response) == response.guard = "immutable"
HeadersAppendServedFrom(response, value) == [response EXCEPT !.served = value]

VARIABLES
    caches,     \* CacheStorage: partition name -> (URL -> stored response)
    server,     \* the version of the content the servers answer with
    h,          \* the fetch handlers: handler -> its position and locals
    state,      \* the state of the newest worker: installing .. redundant
    active,     \* an activated worker of this script receives functional events
    skip,       \* skipWaiting of the newest worker: flag and who invoked it
    install,    \* the install handler of the newest worker
    activate,   \* the activate handler of the newest worker
    updates,    \* installs of a new version so far
    sync,       \* the sync handler: refreshDataInBackground
    registered, \* a sync registration with tag refresh-data is pending
    clients,    \* the client pages that are open
    controlled, \* the open client pages the worker controls
    push,       \* the push handler
    notifications, \* the notifications on display, in the order shown
    click       \* the notificationclick handler

vars == << caches, server, h, state, active, skip, install, activate, updates,
           sync, registered, clients, controlled, push, notifications, click >>
notify == << push, notifications, click >>
pages == << clients, controlled >>
lifecycle == << state, active, skip, install, activate, updates >>

\* ------------------------------------------------------------ fetch handlers
\* pc: "idle", or the await the handler is suspended at, or "done".
\* net: "none" while fetch() was not called, "failed" when it rejected,
\*      "responded" when it resolved with networkResponse.
\* looked: cache.match was called; cachedResponse is what it resolved with.
\* outcome: "pending", "returned" (with result) or "rejected".
IdleHandler ==
    [pc |-> "idle", policy |-> "", request |-> NoRequest, net |-> "none",
     networkResponse |-> Undefined, looked |-> FALSE, cachedResponse |-> Undefined,
     outcome |-> "pending", result |-> Undefined]

Return(rec, response) ==
    [rec EXCEPT !.pc = "done", !.outcome = "returned", !.result = response]
Reject(rec) == [rec EXCEPT !.pc = "done", !.outcome = "rejected"]

\* A listener that routes on the wrong host name.
PolicyWrongHost(request) == IF request.url.host = "api.pse.pl" THEN "api" ELSE "static"

\* The fetch listener: route on the host name.
Policy(request) == IF request.url.host = API_HOST THEN "api" ELSE "static"

FetchEvent(i, request) ==
    /\ active
    /\ h[i].pc = "idle"
    /\ \A j \in Handlers : j < i => h[j].pc # "idle"
    /\ h' = [h EXCEPT ![i] = [IdleHandler EXCEPT !.pc = "open",
                                                 !.policy = Policy(request),
                                                 !.request = request]]
    /\ UNCHANGED << caches, server, lifecycle, sync, registered, pages, notify >>

\* handleApiRequest, line 67: await caches.open(API_CACHE_NAME)
ApiOpen(i) ==
    /\ h[i].pc = "open" /\ h[i].policy = "api"
    /\ caches' = CachesOpen(caches, API_CACHE_NAME)
    /\ h' = [h EXCEPT ![i].pc = "fetch"]
    /\ UNCHANGED << server, lifecycle, sync, registered, pages, notify >>

\* An API handler that treats an HTTP error like a failure of the network.
ApiFallsBackOnError(rec, response) ==
    IF Ok(response)
    THEN [rec EXCEPT !.pc = "put", !.net = "responded", !.networkResponse = response]
    ELSE [rec EXCEPT !.pc = "catch", !.net = "responded",
                     !.networkResponse = response]

\* What handleApiRequest does with the response fetch() resolved with: an ok
\* response goes on to cache.put, any other is returned as it is.
ApiAfterFetch(rec, response) ==
    IF Ok(response)
    THEN [rec EXCEPT !.pc = "put", !.net = "responded", !.networkResponse = response]
    ELSE Return([rec EXCEPT !.net = "responded", !.networkResponse = response],
                response)

\* handleApiRequest, lines 71-80: await fetch(request) resolves.
ApiFetchResolves(i, response) ==
    /\ h[i].pc = "fetch" /\ h[i].policy = "api"
    /\ h' = [h EXCEPT ![i] = ApiAfterFetch(h[i], response)]
    /\ UNCHANGED << caches, server, lifecycle, sync, registered, pages, notify >>

\* handleApiRequest, lines 71, 81: await fetch(request) rejects; the catch
\* block starts and suspends at cache.match.
ApiFetchRejects(i) ==
    /\ h[i].pc = "fetch" /\ h[i].policy = "api"
    /\ h' = [h EXCEPT ![i].pc = "catch", ![i].net = "failed"]
    /\ UNCHANGED << caches, server, lifecycle, sync, registered, pages, notify >>

\* handleApiRequest, lines 75-80: await cache.put(request, clone), then return
\* the live response; a rejected put lands in the catch block.
ApiPut(i) ==
    /\ h[i].pc = "put" /\ h[i].policy = "api"
    /\ IF CachePutRejects(h[i].request)
       THEN /\ h' = [h EXCEPT ![i].pc = "catch"]
            /\ UNCHANGED caches
       ELSE /\ caches' = CachePut(caches, API_CACHE_NAME, h[i].request,
                                  h[i].networkResponse)
            /\ h' = [h EXCEPT ![i] = Return(h[i], h[i].networkResponse)]
    /\ UNCHANGED << server, lifecycle, sync, registered, pages, notify >>

\* A catch block that gives up when the cache has nothing either.
ApiCatchRethrows(rec, cachedResponse) ==
    LET looked == [rec EXCEPT !.looked = TRUE, !.cachedResponse = cachedResponse]
    IN  IF cachedResponse # Undefined
        THEN IF HeadersAppendThrows(cachedResponse)
             THEN Reject(looked)
             ELSE Return(looked, HeadersAppendServedFrom(cachedResponse, "cache"))
        ELSE Reject(looked)

\* handleApiRequest, lines 87-112: the rest of the catch block, given what
\* cache.match resolved with.
ApiCatchResult(rec, cachedResponse) ==
    LET looked == [rec EXCEPT !.looked = TRUE, !.cachedResponse = cachedResponse]
    IN  IF cachedResponse # Undefined
        THEN IF HeadersAppendThrows(cachedResponse)
             THEN Reject(looked)
             ELSE Return(looked, HeadersAppendServedFrom(cachedResponse, "cache"))
        ELSE Return(looked, ApiErrorResponse)

\* handleApiRequest, lines 85-112: await cache.match(request) resolves.
ApiCatch(i) ==
    /\ h[i].pc = "catch" /\ h[i].policy = "api"
    /\ h' = [h EXCEPT ![i] =
                ApiCatchResult(h[i], CacheMatch(caches, API_CACHE_NAME, h[i].request))]
    /\ UNCHANGED << caches, server, lifecycle, sync, registered, pages, notify >>

\* handleStaticRequest, line 118: await caches.open(CACHE_NAME)
StaticOpen(i) ==
    /\ h[i].pc = "open" /\ h[i].policy = "static"
    /\ caches' = CachesOpen(caches, CACHE_NAME)
    /\ h' = [h EXCEPT ![i].pc = "match"]
    /\ UNCHANGED << server, lifecycle, sync, registered, pages, notify >>

\* A static handler that revalidates: it goes to the network on a hit too.
StaticAlwaysFetches(rec, cachedResponse) ==
    [rec EXCEPT !.looked = TRUE, !.cachedResponse = cachedResponse, !.pc = "fetch"]

\* handleStaticRequest, lines 123-129: a hit is returned, a miss goes to the
\* network.
StaticAfterMatch(rec, cachedResponse) ==
    LET looked == [rec EXCEPT !.looked = TRUE, !.cachedResponse = cachedResponse]
    IN  IF cachedResponse # Undefined
        THEN Return(looked, cachedResponse)
        ELSE [looked EXCEPT !.pc = "fetch"]

\* handleStaticRequest, lines 121-125: await cache.match(request) resolves.
StaticMatch(i) ==
    /\ h[i].pc = "match" /\ h[i].policy = "static"
    /\ h' = [h EXCEPT ![i] =
                StaticAfterMatch(h[i], CacheMatch(caches, CACHE_NAME, h[i].request))]
    /\ UNCHANGED << caches, server, lifecycle, sync, registered, pages, notify >>

\* A catch block without the offline page.
StaticCatchNoOfflinePage(request) == StaticErrorResponse

\* handleStaticRequest, lines 137-190: the catch block.
StaticCatchResult(request) ==
    IF request.destination = "document" THEN OfflinePage ELSE StaticErrorResponse

\* A static handler that stores whatever the server answered.
StaticStoresAnyResponse(rec, response) ==
    [rec EXCEPT !.pc = "put", !.net = "responded", !.networkResponse = response]

\* handleStaticRequest, lines 131-136: an ok response goes on to cache.put, any
\* other is returned as it is.
StaticAfterFetch(rec, response) ==
    IF Ok(response)
    THEN [rec EXCEPT !.pc = "put", !.net = "responded", !.networkResponse = response]
    ELSE Return([rec EXCEPT !.net = "responded", !.networkResponse = response],
                response)

\* handleStaticRequest, lines 129-136: await fetch(request) resolves.
StaticFetchResolves(i, response) ==
    /\ h[i].pc = "fetch" /\ h[i].policy = "static"
    /\ h' = [h EXCEPT ![i] = StaticAfterFetch(h[i], response)]
    /\ UNCHANGED << caches, server, lifecycle, sync, registered, pages, notify >>

\* handleStaticRequest, lines 129, 137-190: await fetch(request) rejects.
StaticFetchRejects(i) ==
    /\ h[i].pc = "fetch" /\ h[i].policy = "static"
    /\ h' = [h EXCEPT ![i] = Return([h[i] EXCEPT !.net = "failed"],
                                    StaticCatchResult(h[i].request))]
    /\ UNCHANGED << caches, server, lifecycle, sync, registered, pages, notify >>

\* handleStaticRequest, lines 133-136: await cache.put(request, clone), then
\* return the live response; a rejected put lands in the catch block.
StaticPut(i) ==
    /\ h[i].pc = "put" /\ h[i].policy = "static"
    /\ IF CachePutRejects(h[i].request)
       THEN /\ h' = [h EXCEPT ![i] = Return(h[i], StaticCatchResult(h[i].request))]
            /\ UNCHANGED caches
       ELSE /\ caches' = CachePut(caches, CACHE_NAME, h[i].request,
                                  h[i].networkResponse)
            /\ h' = [h EXCEPT ![i] = Return(h[i], h[i].networkResponse)]
    /\ UNCHANGED << server, lifecycle, sync, registered, pages, notify >>

HandlerStep(i) ==
    \/ ApiOpen(i)
    \/ \E r \in NetResponses(h[i].request.url, server) : ApiFetchResolves(i, r)
    \/ ApiFetchRejects(i)
    \/ ApiPut(i)
    \/ ApiCatch(i)
    \/ StaticOpen(i)
    \/ StaticMatch(i)
    \/ \E r \in NetResponses(h[i].request.url, server) : StaticFetchResolves(i, r)
    \/ StaticFetchRejects(i)
    \/ StaticPut(i)


\* ------------------------------------------------------------- the network
\* The servers publish new content. Versions are told apart only by what was
\* fetched before, and nothing is fetched before a worker installs: the
\* content that the first install meets is version 1.
ServerPublishes ==
    /\ active
    /\ server < MaxVersion
    /\ server' = server + 1
    /\ UNCHANGED << caches, h, lifecycle, sync, registered, pages, notify >>

\* -------------------------------------------------------------- life cycle
IdleInstall == [pc |-> "idle", failed |-> FALSE]
IdleActivate == [pc |-> "idle", cacheNames |-> {}, todo |-> {}, claimed |-> FALSE]
NoSkip == [flag |-> FALSE, byInstall |-> FALSE, byMessage |-> 0, messages |-> 0]

\* self.skipWaiting(): set the skip waiting flag of the worker.
SkipWaiting(sk, caller) ==
    IF caller = "install"
    THEN [sk EXCEPT !.flag = TRUE, !.byInstall = TRUE]
    ELSE [sk EXCEPT !.flag = TRUE, !.byMessage = @ + 1]

\* install listener, line 19: caches.open(CACHE_NAME) resolves.
InstallOpen ==
    /\ install.pc = "open"
    /\ caches' = CachesOpen(caches, CACHE_NAME)
    /\ install' = [install EXCEPT !.pc = "addAll"]
    /\ UNCHANGED << server, h, state, active, skip, activate, updates, sync,
                    registered, pages, notify >>

\* cache.addAll(urls) fetches every URL and rejects when one fetch fails or
\* answers with a status that is not ok; it stores nothing then.
AssetOutcomes == {"ok", "http-error", "network-error"}
AddAllRejects(outcomes) == \E k \in DOMAIN outcomes : outcomes[k] # "ok"

\* A pre-cache that leaves out the first URL of the list.
AddAllSkipsFirst(cs, name, urls, version) ==
    LET added == {urls[k] : k \in DOMAIN urls \ {1}}
    IN  [cs EXCEPT ![name] =
            [u \in DOMAIN cs[name] \cup added |->
                IF u \in added THEN NetworkResponse(u, 200, version) ELSE cs[name][u]]]

\* cache.addAll(urls), when it does not reject.
AddAll(cs, name, urls, version) ==
    LET added == {urls[k] : k \in DOMAIN urls}
    IN  [cs EXCEPT ![name] =
            [u \in DOMAIN cs[name] \cup added |->
                IF u \in added THEN NetworkResponse(u, 200, version) ELSE cs[name][u]]]

\* An install that carries on when cache.addAll rejected.
InstallIgnoresAddAll(rejected) == "skipWaiting"

\* install listener, lines 20-27: what follows cache.addAll: the next .then
\* runs when it resolved, the chain rejects when it rejected.
InstallAfterAddAll(rejected) == IF rejected THEN "rejected" ELSE "skipWaiting"

\* install listener, lines 22-23: cache.addAll(STATIC_ASSETS) settles.
\* install.failed records that one of the assets could not be fetched.
InstallAddAll(outcomes) ==
    /\ install.pc = "addAll"
    /\ caches' = IF AddAllRejects(outcomes) THEN caches
                 ELSE AddAll(caches, CACHE_NAME, STATIC_ASSETS, server)
    /\ install' = [install EXCEPT
                        !.pc = InstallAfterAddAll(AddAllRejects(outcomes)),
                        !.failed = \E k \in DOMAIN outcomes : outcomes[k] # "ok"]
    /\ UNCHANGED << server, h, state, active, skip, activate, updates, sync,
                    registered, pages, notify >>

\* install listener, lines 24-27: self.skipWaiting(), and the promise given to
\* waitUntil resolves.
InstallSkipWaiting ==
    /\ install.pc = "skipWaiting"
    /\ skip' = SkipWaiting(skip, "install")
    /\ install' = [install EXCEPT !.pc = "resolved"]
    /\ UNCHANGED << caches, server, h, state, active, activate, updates, sync,
                    registered, pages, notify >>

\* The host ends the install: the worker is installed (waiting) when the
\* promise given to waitUntil resolved, redundant when it rejected.
HostInstallEnds ==
    /\ state = "installing"
    /\ install.pc \in {"resolved", "rejected"}
    /\ state' = IF install.pc = "resolved" THEN "installed" ELSE "redundant"
    /\ UNCHANGED << caches, server, h, active, skip, install, activate, updates,
                    sync, registered, pages, notify >>

\* The active worker has events whose handlers have not finished.
PendingEvents ==
    \/ \E i \in Handlers : h[i].pc \notin {"idle", "done"}
    \/ sync.pc \notin {"idle", "done"}

\* The host activates a waiting worker: at once when there is no active
\* worker; otherwise when the active worker has no pending events and either
\* no client uses it or the waiting worker has its skip waiting flag set.
CanActivate ==
    \/ ~active
    \/ ~PendingEvents /\ (clients = {} \/ skip.flag)

HostActivates ==
    /\ state = "installed"
    /\ CanActivate
    /\ state' = "activating"
    /\ active' = FALSE
    /\ activate' = [IdleActivate EXCEPT !.pc = "keys"]
    /\ UNCHANGED << caches, server, h, skip, install, updates, sync, registered,
                    pages, notify >>

\* A clean-up that compares with the name of the previous API partition.
ShouldDeleteStaleName(cacheName) ==
    cacheName # CACHE_NAME /\ cacheName # "pse-api-cache-v0"

\* A clean-up that deletes every partition it finds.
ShouldDeleteEverything(cacheName) == TRUE

\* A clean-up that keeps the static partition only.
ShouldDeleteAllButStatic(cacheName) == cacheName # CACHE_NAME

\* activate listener, line 39: the partitions the handler deletes.
ShouldDelete(cacheName) == cacheName # CACHE_NAME /\ cacheName # API_CACHE_NAME

\* activate listener, lines 36-43: caches.keys() resolves; caches.delete is
\* called for every name to delete.
ActivateKeys ==
    /\ activate.pc = "keys"
    /\ activate' = [activate EXCEPT !.pc = "delete",
                                    !.cacheNames = DOMAIN caches,
                                    !.todo = {n \in DOMAIN caches : ShouldDelete(n)}]
    /\ UNCHANGED << caches, server, h, state, active, skip, install, updates,
                    sync, registered, pages, notify >>

\* activate listener, line 41: one caches.delete(cacheName) completes.
ActivateDelete(cacheName) ==
    /\ activate.pc = "delete"
    /\ cacheName \in activate.todo
    /\ caches' = CachesDelete(caches, cacheName)
    /\ activate' = [activate EXCEPT !.todo = @ \ {cacheName}]
    /\ UNCHANGED << server, h, state, active, skip, install, updates, sync,
                    registered, pages, notify >>

\* self.clients.claim(): every open page in scope becomes controlled.
ClientsClaim(open) == open

\* activate listener, lines 45-48: Promise.all resolved; self.clients.claim().
ActivateClaim ==
    /\ activate.pc = "delete"
    /\ activate.todo = {}
    /\ activate' = [activate EXCEPT !.pc = "done", !.claimed = TRUE]
    /\ controlled' = ClientsClaim(clients)
    /\ UNCHANGED << caches, server, h, state, active, skip, install, updates,
                    sync, registered, clients, notify >>

\* The host ends the activation: the worker is activated and receives the
\* functional events.
HostActivated ==
    /\ state = "activating"
    /\ activate.pc = "done"
    /\ state' = "activated"
    /\ active' = TRUE
    /\ UNCHANGED << caches, server, h, skip, install, activate, updates, sync,
                    registered, pages, notify >>

\* The host finds a new version of the script and installs it; the activated
\* worker stays active meanwhile.
HostUpdates ==
    /\ state \in {"activated", "redundant"}
    /\ updates < MaxUpdates
    /\ updates' = updates + 1
    /\ state' = "installing"
    /\ install' = [IdleInstall EXCEPT !.pc = "open"]
    /\ activate' = IdleActivate
    /\ skip' = NoSkip
    /\ UNCHANGED << caches, server, h, active, sync, registered, pages, notify >>

\* ----------------------------------------------------------------- messages
MessageTypes == {"SKIP_WAITING", "REQUEST_UPDATE", "OTHER", "no data"}

\* A listener that tests the wrong message type.
MessageSkipWrongType(sk, type) ==
    IF type # "no data" /\ type = "REQUEST_UPDATE"
    THEN SkipWaiting(sk, "message")
    ELSE sk

\* message listener, lines 278-280
MessageSkip(sk, type) ==
    IF type # "no data" /\ type = "SKIP_WAITING"
    THEN SkipWaiting(sk, "message")
    ELSE sk

\* message listener, lines 282-285: sync.register('refresh-data') registers
\* when the registration has an active worker.
MessageRegisters(type) == type # "no data" /\ type = "REQUEST_UPDATE" /\ active

\* A page posts a message to the newest worker; message listener, lines
\* 275-286. skip.messages counts the SKIP_WAITING messages received.
MessageEvent(type) ==
    /\ state \in {"installing", "installed", "activating", "activated"}
    /\ clients # {}
    /\ type = "SKIP_WAITING" => skip.messages < MaxSkipMessages
    /\ skip' = MessageSkip([skip EXCEPT !.messages =
                                IF type = "SKIP_WAITING" THEN @ + 1 ELSE @], type)
    /\ registered' = (registered \/ MessageRegisters(type))
    /\ UNCHANGED << caches, server, h, state, active, install, activate, updates,
                    sync, pages, notify >>

\* ----------------------------------------------------------- background sync
IdleSync ==
    [pc |-> "idle", tag |-> "", response |-> Undefined, stored |-> FALSE,
     posted |-> {}, audience |-> {}, runs |-> 0, net |-> "none",
     outcome |-> "pending"]

\* sync listener, lines 240-246
SyncStart(tag) ==
    IF tag = "refresh-data"
    THEN [IdleSync EXCEPT !.pc = "fetch", !.tag = tag]
    ELSE [IdleSync EXCEPT !.pc = "done", !.tag = tag, !.outcome = "resolved"]

\* The host dispatches a sync event: for the tag refresh-data when a
\* registration is pending, for a tag the pages registered themselves at any
\* time. sync.runs counts the events.
SyncEvent(tag) ==
    /\ active
    /\ sync.pc \in {"idle", "done"}
    /\ sync.runs < MaxSyncs
    /\ tag = "refresh-data" => registered
    /\ sync' = [SyncStart(tag) EXCEPT !.runs = sync.runs + 1]
    /\ registered' = IF tag = "refresh-data" THEN FALSE ELSE registered
    /\ UNCHANGED << caches, server, h, lifecycle, pages, notify >>

\* A refresh that stores whatever the server answered.
SyncStoresAnyResponse(rec, response) ==
    [rec EXCEPT !.pc = "open", !.response = response, !.net = "responded"]

\* refreshDataInBackground, lines 253-256: an ok response goes on to the
\* store, any other ends the refresh.
SyncAfterFetch(rec, response) ==
    IF Ok(response)
    THEN [rec EXCEPT !.pc = "open", !.response = response, !.net = "responded"]
    ELSE [rec EXCEPT !.pc = "done", !.response = response, !.net = "responded",
                     !.outcome = "resolved"]

\* refreshDataInBackground, line 253: await fetch(url) resolves.
SyncFetchResolves(response) ==
    /\ sync.pc = "fetch"
    /\ sync' = SyncAfterFetch(sync, response)
    /\ UNCHANGED << caches, server, h, lifecycle, registered, pages, notify >>

\* refreshDataInBackground, lines 253, 269-271: await fetch(url) rejects; the
\* error is logged.
SyncFetchRejects ==
    /\ sync.pc = "fetch"
    /\ sync' = [sync EXCEPT !.pc = "done", !.net = "failed",
                            !.outcome = "resolved"]
    /\ UNCHANGED << caches, server, h, lifecycle, registered, pages, notify >>

\* refreshDataInBackground, line 256: await caches.open(API_CACHE_NAME)
SyncOpen ==
    /\ sync.pc = "open"
    /\ caches' = CachesOpen(caches, API_CACHE_NAME)
    /\ sync' = [sync EXCEPT !.pc = "put"]
    /\ UNCHANGED << server, h, lifecycle, registered, pages, notify >>

\* refreshDataInBackground, line 257: the key of the store. A request made
\* from a URL string is a GET request.
SyncRequest == Request(REFRESH_URL, "GET", "")

\* refreshDataInBackground, line 257: await cache.put(url, clone)
SyncPut ==
    /\ sync.pc = "put"
    /\ caches' = CachePut(caches, API_CACHE_NAME, SyncRequest, sync.response)
    /\ sync' = [sync EXCEPT !.pc = "matchAll", !.stored = TRUE]
    /\ UNCHANGED << server, h, lifecycle, registered, pages, notify >>

\* A refresh that notifies one page only.
SyncPostsToOne(matched) ==
    IF matched = {} THEN {} ELSE {CHOOSE c \in matched : TRUE}

\* refreshDataInBackground, lines 262-267: the clients a message is posted to,
\* given the clients matchAll resolved with.
SyncPostTargets(matched) == matched

\* refreshDataInBackground, lines 261-267: await self.clients.matchAll()
\* resolves with the pages the worker controls now; DATA_UPDATED is posted to
\* each. audience records the pages open at that moment.
SyncNotify ==
    /\ sync.pc = "matchAll"
    /\ sync' = [sync EXCEPT !.pc = "done", !.audience = clients,
                            !.posted = SyncPostTargets(controlled),
                            !.outcome = "resolved"]
    /\ UNCHANGED << caches, server, h, lifecycle, registered, pages, notify >>

\* ------------------------------------------------------- push notifications
\* A JavaScript value that is undefined: a field the payload does not have.
JsUndefined == "<undefined>"
\* v || d: the default replaces every falsy value, the empty string included.
Falsy(v) == v = JsUndefined \/ v = ""
OrDefault(v, d) == IF Falsy(v) THEN d ELSE v

NOTIFICATION_TITLE == "PSE Dashboard"
DEFAULT_BODY == "Nowy alert rezerw mocy!"
NOTIFICATION_ICON == "/apple-touch-icon-180x180.png"

\* event.data of a push event: null (kind "none") when the message carries no
\* payload; otherwise a payload whose text is not JSON (kind "text"), is the
\* JSON null (kind "null"), or is a JSON object with optional body and url.
Payload(kind, body, url) == [kind |-> kind, body |-> body, url |-> url]
NoPayload == Payload("none", JsUndefined, JsUndefined)
Payloads ==
    {NoPayload, Payload("text", JsUndefined, JsUndefined),
     Payload("null", JsUndefined, JsUndefined)}
    \cup {Payload("object", b, u) :
            b \in {JsUndefined, "", "Rezerwa ponizej progu"},
            u \in {JsUndefined, "", "/alerts"}}

\* push listener, lines 198-202: event.data.json() throws a SyntaxError for a
\* text that is not JSON; for the JSON null, data.body throws a TypeError.
PushThrows(payload) == payload.kind \in {"text", "null"}

\* push listener, lines 199-217: the options of the notification. actions
\* lists the action ids (their titles are Otworz Dashboard and Zamknij).
PushOptions(data) ==
    [body |-> OrDefault(data.body, DEFAULT_BODY), icon |-> NOTIFICATION_ICON,
     badge |-> NOTIFICATION_ICON, vibrate |-> << 100, 50, 100 >>,
     data |-> [url |-> OrDefault(data.url, "/")],
     actions |-> << "open", "close" >>]

\* registration.showNotification(title, options): the notification displayed.
Notification(title, options) == [title |-> title, options |-> options]
NoNotification == Notification("", PushOptions(NoPayload))

\* pc: "idle", "show" (the promise of showNotification is pending) or "done".
\* shown: the notifications this event displayed. count: the events so far.
IdlePush ==
    [pc |-> "idle", payload |-> NoPayload, options |-> PushOptions(NoPayload),
     shown |-> << >>, outcome |-> "pending", count |-> 0]

\* push listener, lines 194-223, up to the call of showNotification.
PushStart(payload) ==
    IF payload.kind = "none"
    THEN [IdlePush EXCEPT !.pc = "done", !.payload = payload,
                          !.outcome = "returned"]
    ELSE IF PushThrows(payload)
         THEN [IdlePush EXCEPT !.pc = "done", !.payload = payload,
                               !.outcome = "threw"]
         ELSE [IdlePush EXCEPT !.pc = "show", !.payload = payload,
                               !.options = PushOptions(payload)]

\* The host dispatches a push event to the active worker.
PushEvent(payload) ==
    /\ active
    /\ push.pc \in {"idle", "done"}
    /\ push.count < MaxPushes
    /\ push' = [PushStart(payload) EXCEPT !.count = push.count + 1]
    /\ UNCHANGED << caches, server, h, lifecycle, sync, registered, pages,
                    notifications, click >>

\* push listener, lines 219-221: the notification is displayed and the promise
\* given to waitUntil resolves.
ShowNotification ==
    /\ push.pc = "show"
    /\ LET n == Notification(NOTIFICATION_TITLE, push.options)
       IN  /\ notifications' = Append(notifications, n)
           /\ push' = [push EXCEPT !.pc = "done", !.shown = Append(@, n),
                                   !.outcome = "returned"]
    /\ UNCHANGED << caches, server, h, lifecycle, sync, registered, pages,
                    click >>

\* A notificationclick handler that opens the window for the open button only.
ClickOpensOnOpenOnly(action) == action = "open"

\* notificationclick listener, line 231: the clicks that open a window.
\* event.action is the id of the button clicked, "" for a click elsewhere on
\* the notification.
ClickOpensWindow(action) == action = "open" \/ action = ""

\* notification.close(): the notification leaves the display.
NotificationClose(shown, k) ==
    [j \in 1..(Len(shown) - 1) |-> IF j < k THEN shown[j] ELSE shown[j + 1]]

\* What the user can click on notification n.
ClickActions(n) == {n.options.actions[k] : k \in DOMAIN n.options.actions} \cup {""}

\* opened: the URLs clients.openWindow was called with. count: the events so
\* far.
IdleClick ==
    [notification |-> NoNotification, action |-> "", opened |-> << >>,
     count |-> 0]

\* notificationclick listener, lines 226-237, for a click on the notification
\* at position k.
NotificationClick(k, action) ==
    /\ active
    /\ k \in DOMAIN notifications
    /\ action \in ClickActions(notifications[k])
    /\ notifications' = NotificationClose(notifications, k)
    /\ click' = [notification |-> notifications[k], action |-> action,
                 opened |-> IF ClickOpensWindow(action)
                            THEN << OrDefault(notifications[k].options.data.url,
                                              "/") >>
                            ELSE << >>,
                 count |-> click.count + 1]
    /\ UNCHANGED << caches, server, h, lifecycle, sync, registered, pages,
                    push >>

\* ------------------------------------------------------------------ clients
\* A page opens. It is controlled from its load when the registration has an
\* active worker (activating or activated).
ClientOpens(c) ==
    /\ c \notin clients
    /\ clients' = clients \cup {c}
    /\ controlled' = IF active \/ state = "activating"
                     THEN controlled \cup {c} ELSE controlled
    /\ UNCHANGED << caches, server, h, lifecycle, sync, registered, notify >>

ClientCloses(c) ==
    /\ c \in clients
    /\ clients' = clients \ {c}
    /\ controlled' = controlled \ {c}
    /\ UNCHANGED << caches, server, h, lifecycle, sync, registered, notify >>

\* ------------------------------------------------------------ specification
\* The script was registered: its first worker is installing. CacheStorage
\* holds whatever partitions earlier versions left behind.
Init ==
    /\ caches \in {[n \in S |-> EmptyCache] : S \in SUBSET OldCacheNames}
    /\ server = 1
    /\ h = [i \in Handlers |-> IdleHandler]
    /\ state = "installing"
    /\ active = FALSE
    /\ skip = NoSkip
    /\ install = [IdleInstall EXCEPT !.pc = "open"]
    /\ activate = IdleActivate
    /\ updates = 0
    /\ sync = IdleSync
    /\ registered = FALSE
    /\ clients = {}
    /\ controlled = {}
    /\ push = IdlePush
    /\ notifications = << >>
    /\ click = IdleClick

\* The steps of the handlers of the fetch events in flight.
FetchSteps == \E i \in Handlers : HandlerStep(i)

\* The life cycle of a worker: its install and activate handlers and the host.
LifecycleSteps ==
    \/ InstallOpen
    \/ \E o \in [DOMAIN STATIC_ASSETS -> AssetOutcomes] : InstallAddAll(o)
    \/ InstallSkipWaiting
    \/ HostInstallEnds
    \/ HostActivates
    \/ ActivateKeys
    \/ \E n \in activate.todo : ActivateDelete(n)
    \/ ActivateClaim
    \/ HostActivated

\* The background refresh.
SyncSteps ==
    \/ \E t \in {"refresh-data", "other-tag"} : SyncEvent(t)
    \/ \E r \in NetResponses(REFRESH_URL, server) : SyncFetchResolves(r)
    \/ SyncFetchRejects
    \/ SyncOpen
    \/ SyncPut
    \/ SyncNotify

ClientSteps ==
    \/ \E c \in Clients : ClientOpens(c)
    \/ \E c \in Clients : ClientCloses(c)

\* Everything together: the handlers of all events interleave; new versions
\* of the worker install while the active one serves.
Next ==
    \/ \E i \in 1..MaxInterleavedFetches : \E r \in Requests : FetchEvent(i, r)
    \/ FetchSteps
    \/ ServerPublishes
    \/ LifecycleSteps
    \/ HostUpdates
    \/ \E t \in MessageTypes : MessageEvent(t)
    \/ SyncSteps
    \/ ClientSteps

Spec == Init /\ [][Next]_vars

\* The fetch events of one activated worker, their handlers running
\* concurrently.
NextFetch ==
    \/ \E i \in Handlers : \E r \in Requests : FetchEvent(i, r)
    \/ FetchSteps
    \/ ServerPublishes
    \/ LifecycleSteps

SpecFetch == Init /\ [][NextFetch]_vars

\* The life cycle of the worker and of its updates, and the messages of the
\* pages.
NextLifecycle ==
    \/ LifecycleSteps
    \/ HostUpdates
    \/ \E t \in MessageTypes : MessageEvent(t)
    \/ ClientSteps

SpecLifecycle == Init /\ [][NextLifecycle]_vars

\* The background refresh of one activated worker.
NextSync ==
    \/ LifecycleSteps
    \/ \E t \in MessageTypes : MessageEvent(t)
    \/ SyncSteps
    \/ ClientSteps
    \/ ServerPublishes

SpecSync == Init /\ [][NextSync]_vars

\* The host runs a handler on when the promise it awaits settles, and ends an
\* install or an activation whose handler finished.
SpecLifecycleFair == SpecLifecycle /\ WF_vars(LifecycleSteps)

\* The push messages of one activated worker and the clicks on the
\* notifications it displays.
NotifySteps ==
    \/ \E p \in Payloads : PushEvent(p)
    \/ ShowNotification
    \/ \E k \in 1..MaxPushes : \E a \in {"open", "close", ""} :
            NotificationClick(k, a)

NextNotify ==
    \/ LifecycleSteps
    \/ NotifySteps

SpecNotify == Init /\ [][NextNotify]_vars

\* ------------------------------------------------------------------- claims
\* The partition holds the response under the URL.
Holds(cs, name, url, response) ==
    name \in DOMAIN cs /\ url \in DOMAIN cs[name] /\ cs[name][url] = response

\* Handler i completes in this step.
Completes(i) == h[i].pc # "done" /\ h'[i].pc = "done"

\* C1: for every request to the API host, when the network call of
\* handleApiRequest resolves with an ok response, the handler returns exactly
\* that response, and when the handler completes the API partition holds that
\* response under the key of the request.
C1_ApiSuccessEchoedAndStored ==
    [][\A i \in Handlers :
        (Completes(i) /\ h'[i].policy = "api" /\ h'[i].net = "responded"
            /\ Ok(h'[i].networkResponse))
        => /\ h'[i].outcome = "returned"
           /\ h'[i].result = h'[i].networkResponse
           /\ Holds(caches', API_CACHE_NAME, h'[i].request.url,
                    h'[i].networkResponse)]_vars

\* C2: for every request to the API host, when the network call fails and the
\* API partition holds an entry for the key of the request, the handler returns
\* the cached response with X-Served-From = cache; it returns no 503 and does
\* not end in an error.
C2_ApiFailureServedFromCache ==
    \A i \in Handlers :
        (h[i].pc = "done" /\ h[i].policy = "api" /\ h[i].net = "failed"
            /\ h[i].looked /\ h[i].cachedResponse # Undefined)
        => /\ h[i].outcome = "returned"
           /\ h[i].result = [h[i].cachedResponse EXCEPT !.served = "cache"]
           /\ h[i].result.status # 503

\* C3: for every request to the API host, when the network call fails and the
\* API partition holds no entry for the key of the request, the handler returns
\* a synthesized response of status 503 whose JSON body has cached = false and
\* whose X-Served-From is error.
C3_ApiFailureNoCache503 ==
    \A i \in Handlers :
        (h[i].pc = "done" /\ h[i].policy = "api" /\ h[i].net = "failed"
            /\ h[i].looked /\ h[i].cachedResponse = Undefined)
        => /\ h[i].outcome = "returned"
           /\ h[i].result.status = 503
           /\ h[i].result.body = "{error, message, cached: false}"
           /\ h[i].result.ctype = "application/json"
           /\ h[i].result.served = "error"

C3_Witness ==
    \E i \in Handlers :
        /\ h[i].pc = "done" /\ h[i].policy = "api" /\ h[i].net = "failed"
        /\ h[i].looked /\ h[i].cachedResponse = Undefined
        /\ h[i].request.method = "GET"

\* C4: for every request of the static policy, when the static partition holds
\* an entry for the key of the request at the lookup, the handler returns that
\* entry and the network is never invoked for the request.
C4_StaticHitNeverFetches ==
    \A i \in Handlers :
        (h[i].policy = "static" /\ h[i].looked /\ h[i].cachedResponse # Undefined)
        => /\ h[i].pc = "done"
           /\ h[i].outcome = "returned"
           /\ h[i].result = h[i].cachedResponse
           /\ h[i].net = "none"

C4_Witness ==
    \E i \in Handlers :
        /\ h[i].pc = "done" /\ h[i].policy = "static"
        /\ h[i].looked /\ h[i].cachedResponse # Undefined
        /\ h[i].result = caches[CACHE_NAME][h[i].request.url]

\* C5: a request of the static policy that misses the static partition and
\* whose fetch fails is answered with the offline page (title PSE Dashboard -
\* Offline, Content-Type text/html) when its destination is document, and with
\* the 503 Service Unavailable response for any other destination.
C5_StaticFailureFallback ==
    \A i \in Handlers :
        (h[i].pc = "done" /\ h[i].policy = "static" /\ h[i].net = "failed"
            /\ h[i].looked /\ h[i].cachedResponse = Undefined)
        => /\ h[i].outcome = "returned"
           /\ IF h[i].request.destination = "document"
              THEN /\ h[i].result.body = "<title>PSE Dashboard - Offline</title>"
                   /\ h[i].result.ctype = "text/html"
              ELSE /\ h[i].result.status = 503
                   /\ h[i].result.body = "Service Unavailable"

C5_Witness ==
    \E i, j \in Handlers :
        /\ h[i].pc = "done" /\ h[i].policy = "static" /\ h[i].net = "failed"
        /\ h[i].request.destination = "document"
        /\ h[j].pc = "done" /\ h[j].policy = "static" /\ h[j].net = "failed"
        /\ h[j].request.destination # "document"

\* C6: after the activate event was handled to completion, no partition exists
\* whose name is other than pse-dashboard-v1 and pse-api-cache-v1, whatever
\* partitions existed before.
C6_ActivateLeavesCurrentOnly ==
    activate.pc = "done" => DOMAIN caches \subseteq {"pse-dashboard-v1", "pse-api-cache-v1"}

C6_Witness ==
    /\ activate.pc = "done"
    /\ OldCacheNames \subseteq activate.cacheNames
    /\ "pse-dashboard-v1" \in DOMAIN caches

\* C7: every message of type SKIP_WAITING invokes skipWaiting, and no other
\* message does; a worker that is installed and waiting when skipWaiting was
\* invoked becomes the activated worker.
C7_SkipWaitingMessage ==
    /\ [](skip.byMessage = skip.messages /\ (skip.messages > 0 => skip.flag))
    /\ (state = "installed" /\ skip.byMessage > 0) ~> (state = "activated")

C7_Witness ==
    /\ state = "installed" /\ skip.byMessage > 0
    /\ active /\ controlled # {}

\* C8: when the population of the static partition fails for one of the
\* assets, the promise of the install handler rejects, the handler does not
\* invoke skipWaiting and the worker does not become active.
C8_InstallFailsAsAWhole ==
    install.failed
    => /\ install.pc = "rejected"
       /\ ~skip.byInstall
       /\ state \in {"installing", "redundant"}

C8_Witness == install.failed /\ state = "redundant" /\ updates > 0 /\ active

\* C9: in every reachable state, under any interleaving of the install, fetch
\* and sync handlers, every key of the API partition is a request to
\* api.raporty.pse.pl and no key of the static partition is.
C9_PartitionsDisjoint ==
    /\ API_CACHE_NAME \in DOMAIN caches
        => \A u \in DOMAIN caches[API_CACHE_NAME] : u.host = "api.raporty.pse.pl"
    /\ CACHE_NAME \in DOMAIN caches
        => \A u \in DOMAIN caches[CACHE_NAME] : u.host # "api.raporty.pse.pl"

C9_Witness ==
    /\ API_CACHE_NAME \in DOMAIN caches /\ CACHE_NAME \in DOMAIN caches
    /\ REFRESH_URL \in DOMAIN caches[API_CACHE_NAME]
    /\ Url(ORIGIN_HOST, "/style.css") \in DOMAIN caches[CACHE_NAME]
    /\ install.pc = "addAll" /\ updates > 0
    /\ sync.pc = "matchAll"

C11_FetchAlwaysAnswered ==
    \A i \in Handlers :
        h[i].pc = "done" => h[i].outcome = "returned" /\ h[i].result # Undefined

\* C12: after any sequence of events, an entry of the static or of the API
\* partition is never evicted: a key present in one of the two partitions is
\* present in it in every later state, and its value changes only to an ok
\* response fetched for that key.
C12_EntriesNeverEvicted ==
    [][\A n \in {CACHE_NAME, API_CACHE_NAME} :
        n \in DOMAIN caches
        => /\ n \in DOMAIN caches'
           /\ \A k \in DOMAIN caches[n] :
                /\ k \in DOMAIN caches'[n]
                /\ caches'[n][k] # caches[n][k]
                    => Ok(caches'[n][k]) /\ caches'[n][k].url = k]_vars

C12_Witness ==
    /\ updates > 0 /\ activate.pc = "done" /\ activate.cacheNames # {}
    /\ API_CACHE_NAME \in DOMAIN caches /\ CACHE_NAME \in DOMAIN caches
    /\ REFRESH_URL \in DOMAIN caches[API_CACHE_NAME]
    /\ caches[API_CACHE_NAME][REFRESH_URL].version = 1
    /\ caches[CACHE_NAME][Url(ORIGIN_HOST, "/")].version = 2
    /\ Url(ORIGIN_HOST, "/style.css") \in DOMAIN caches[CACHE_NAME]

\* C13: when the fetch of the background refresh throws or resolves with a
\* response that is not ok, refreshDataInBackground completes without an
\* error, the API partition is left unchanged, no message is posted to any
\* page, and no further fetch or sync registration is made.
C13_RefreshFailureSwallowed ==
    /\ []((sync.pc = "done" /\ sync.tag = "refresh-data"
                /\ (sync.net = "failed"
                       \/ (sync.net = "responded" /\ ~Ok(sync.response))))
            => sync.outcome = "resolved" /\ ~sync.stored /\ sync.posted = {})
    /\ [][(sync.pc = "fetch" /\ sync' # sync /\ ~Ok(sync'.response))
            => /\ sync'.pc = "done"
               /\ caches' = caches
               /\ registered' = registered]_vars

C13_Witness ==
    /\ sync.pc = "done" /\ sync.tag = "refresh-data" /\ sync.net = "failed"
    /\ controlled = Clients
    /\ API_CACHE_NAME \notin DOMAIN caches

\* The URLs of STATIC_ASSETS.
StaticAssetUrls == {STATIC_ASSETS[k] : k \in DOMAIN STATIC_ASSETS}

\* The install handler invoked skipWaiting only with every URL of
\* STATIC_ASSETS stored in the static partition.
SkipWaitingAfterPrecache ==
    skip.byInstall
    => /\ CACHE_NAME \in DOMAIN caches
       /\ StaticAssetUrls \subseteq DOMAIN caches[CACHE_NAME]

\* C14 as stated: the install handler invokes skipWaiting only after every URL
\* of STATIC_ASSETS is stored in the static partition; hence every request of
\* the static policy for one of these URLs is answered from the cache without
\* a network call.
C14_AssetRequestsServedFromCache ==
    /\ SkipWaitingAfterPrecache
    /\ \A i \in Handlers :
        (h[i].pc = "done" /\ h[i].policy = "static"
            /\ h[i].request.url \in StaticAssetUrls)
        => /\ h[i].outcome = "returned"
           /\ h[i].cachedResponse # Undefined
           /\ h[i].result = h[i].cachedResponse
           /\ h[i].net = "none"

\* C14, amended: the install handler invokes skipWaiting only after every URL
\* of STATIC_ASSETS is stored in the static partition; hence every GET request
\* of the static policy for one of these URLs is answered from the cache
\* without a network call, also when the network is down.
C14_AssetGetRequestsServedFromCache ==
    /\ SkipWaitingAfterPrecache
    /\ \A i \in Handlers :
        (h[i].policy = "static" /\ h[i].request.method = "GET"
            /\ h[i].request.url \in StaticAssetUrls /\ h[i].looked)
        => /\ h[i].pc = "done"
           /\ h[i].outcome = "returned"
           /\ h[i].cachedResponse # Undefined
           /\ h[i].result = h[i].cachedResponse
           /\ h[i].net = "none"

C14_Witness ==
    \E i, j \in Handlers :
        /\ skip.byInstall
        /\ h[i].pc = "done" /\ h[i].policy = "static"
        /\ h[i].request = Request(Url(ORIGIN_HOST, "/"), "GET", "document")
        /\ h[i].net = "none"
        /\ h[j].pc = "done" /\ h[j].net = "failed"

StaticMissFetched(rec) ==
    /\ rec.policy = "static" /\ rec.looked /\ rec.cachedResponse = Undefined
    /\ rec.net = "responded" /\ Ok(rec.networkResponse)

\* C16: when the handler of a request of the static policy that missed the
\* static partition and whose fetch succeeded completes, it returned the
\* fetched response and the static partition holds that response under the
\* key of the request; the lookup of every later static request for the same
\* key hits.
C16_StaticMissFetchedAndStored ==
    /\ [][\A i \in Handlers :
            (Completes(i) /\ StaticMissFetched(h'[i]))
            => /\ h'[i].outcome = "returned"
               /\ h'[i].result = h'[i].networkResponse
               /\ Holds(caches', CACHE_NAME, h'[i].request.url,
                        h'[i].networkResponse)]_vars
    /\ [][\A i, j \in Handlers :
            (h[i].pc = "done" /\ StaticMissFetched(h[i])
                /\ h[j].request = h[i].request
                /\ ~h[j].looked /\ h'[j].looked)
            => h'[j].cachedResponse # Undefined]_vars

\* C17: on every notificationclick event the notification is closed; a window
\* is opened to the data url of the notification (or to / when it has none)
\* for every action other than close, and no window is opened when the action
\* is close.
C17_ClickClosesAndOpens ==
    /\ [](click.count > 0
            => IF click.action = "close"
               THEN click.opened = << >>
               ELSE click.opened =
                        << IF click.notification.options.data.url
                                \in {JsUndefined, ""}
                           THEN "/"
                           ELSE click.notification.options.data.url >>)
    /\ [][click'.count > click.count
            => /\ Len(notifications') = Len(notifications) - 1
               /\ \E k \in DOMAIN notifications :
                    /\ notifications[k] = click'.notification
                    /\ \A j \in DOMAIN notifications' :
                        notifications'[j] =
                            notifications[IF j < k THEN j ELSE j + 1]]_vars

C17_Witness ==
    /\ click.count = 2 /\ click.action = ""
    /\ click.notification.options.data.url = "/alerts"
    /\ click.opened = << "/alerts" >>
    /\ notifications = << >>

\* The notification of C18 for a payload: title PSE Dashboard, actions open
\* and close, the body and the data url of the payload, the default text and
\* / standing in for a field the payload lacks or has empty.
ExpectedNotification(payload) ==
    [title |-> "PSE Dashboard",
     body |-> IF payload.body \in {JsUndefined, ""}
              THEN "Nowy alert rezerw mocy!" ELSE payload.body,
     url |-> IF payload.url \in {JsUndefined, ""} THEN "/" ELSE payload.url,
     actions |-> << "open", "close" >>]

\* What C18 speaks of in a notification on display.
Displayed(n) ==
    [title |-> n.title, body |-> n.options.body, url |-> n.options.data.url,
     actions |-> n.options.actions]

\* The notifications a push handler displayed are those it put on display.
PushShownOnDisplay ==
    push' # push => notifications' = notifications \o push'.shown

\* C18: every push event that carries a payload displays exactly one
\* notification titled PSE Dashboard with the actions open and close, whose
\* body is the body of the payload, or the default text when the payload has
\* none, and whose data url is the url of the payload, or / when it has none;
\* a push event without payload displays none.
C18_PushDisplaysOneNotification ==
    /\ []((push.pc = "done" /\ push.payload.kind # "none")
            => /\ Len(push.shown) = 1
               /\ Displayed(push.shown[1]) = ExpectedNotification(push.payload))
    /\ []((push.pc = "done" /\ push.payload.kind = "none")
            => push.shown = << >>)
    /\ [][PushShownOnDisplay]_vars

\* C19: in every reachable state, under any interleaving of the fetch, sync
\* and install handlers, every entry of the static and of the API partition
\* is an ok response obtained from a network fetch of its own key: no
\* synthesized 503, no offline page, no response that is not ok and no copy
\* marked as served from the cache is stored.
C19_EntriesAreFetchedOkResponses ==
    \A n \in {CACHE_NAME, API_CACHE_NAME} :
        n \in DOMAIN caches
        => \A k \in DOMAIN caches[n] :
            /\ Ok(caches[n][k])
            /\ caches[n][k].url = k
            /\ caches[n][k].served = "none"
            /\ \E v \in 1..MaxVersion :
                caches[n][k] = NetworkResponse(k, caches[n][k].status, v)
            /\ caches[n][k] \notin {ApiErrorResponse, OfflinePage,
                                    StaticErrorResponse}

C19_Witness ==
    /\ API_CACHE_NAME \in DOMAIN caches /\ CACHE_NAME \in DOMAIN caches
    /\ REFRESH_URL \in DOMAIN caches[API_CACHE_NAME]
    /\ StaticAssetUrls \subseteq DOMAIN caches[CACHE_NAME]
    /\ updates > 0 /\ install.pc = "resolved"
    /\ \E i \in Handlers :
        /\ h[i].pc = "done" /\ h[i].outcome = "returned"
        /\ h[i].policy = "static" /\ h[i].request.method = "GET"
        /\ ~Ok(h[i].result)

\* C20: when the fetch of a request to the API host resolves with a response
\* that is not ok, the handler returns that response unchanged, does not look
\* the key up in the API partition, whether or not it holds an entry, and
\* leaves the API partition unchanged.
C20_ApiHttpErrorReturnedAsIs ==
    /\ [](\A i \in Handlers :
            (h[i].policy = "api" /\ h[i].net = "responded"
                /\ ~Ok(h[i].networkResponse))
            => /\ h[i].pc = "done"
               /\ h[i].outcome = "returned"
               /\ h[i].result = h[i].networkResponse
               /\ ~h[i].looked)
    /\ [][\A i \in Handlers :
            (h[i].policy = "api" /\ h[i].net # "responded"
                /\ h'[i].net = "responded" /\ ~Ok(h'[i].networkResponse))
            => caches' = caches]_vars

C20_Witness ==
    \E i \in Handlers :
        /\ h[i].pc = "done" /\ h[i].policy = "api" /\ h[i].net = "responded"
        /\ h[i].result.status = 404
        /\ h[i].request.method = "GET"
        /\ API_CACHE_NAME \in DOMAIN caches
        /\ h[i].request.url \in DOMAIN caches[API_CACHE_NAME]
        /\ Ok(caches[API_CACHE_NAME][h[i].request.url])
====
